---- MODULE Spec2Model ----
(***************************************************************************)
(* A model of sausage.py: the usage-section locator (index_usage_section), *)
(* the help-line formatter (get_help_lines) and the session loop of main.  *)
(* Text is modelled at character level: a string is a sequence of          *)
(* one-character strings, a document is a sequence of such lines.  Python  *)
(* indices are kept 0-based in the values the functions return; line k of  *)
(* the code is element k + 1 of the TLA+ sequence.                         *)
(***************************************************************************)
EXTENDS Integers, Sequences, FiniteSets, TLC

(***************************************************************************)
(* Bounds of the model.                                                    *)
(***************************************************************************)
MaxDocLen == 4
MaxScanLen == 4
MaxFairLen == 3
MaxHelpLines == 3
MaxCmds == 2
MaxIndent == 1

(***************************************************************************)
(* Python str primitives used by the code.                                 *)
(***************************************************************************)
IsSpace(c) == c \in {" ", "\t", "\n", "\r"}

ToLower(c) ==
    CASE c = "U" -> "u" [] c = "S" -> "s" [] c = "A" -> "a" [] c = "G" -> "g"
      [] c = "E" -> "e" [] c = "B" -> "b" [] c = "X" -> "x" [] OTHER -> c

Lower(s) == [i \in 1..Len(s) |-> ToLower(s[i])]

RECURSIVE Lstrip(_)
Lstrip(s) == IF s # <<>> /\ IsSpace(Head(s)) THEN Lstrip(Tail(s)) ELSE s

RECURSIVE Rstrip(_)
Rstrip(s) ==
    IF s # <<>> /\ IsSpace(s[Len(s)]) THEN Rstrip(SubSeq(s, 1, Len(s) - 1)) ELSE s

Strip(s) == Rstrip(Lstrip(s))

StartsWith(s, p) == Len(s) >= Len(p) /\ SubSeq(s, 1, Len(p)) = p

EndsWith(s, p) == Len(s) >= Len(p) /\ SubSeq(s, Len(s) - Len(p) + 1, Len(s)) = p

\* Python's `sub in s` for strings.
Contains(s, sub) ==
    \E t \in {s}, p \in {sub} :
        \E i \in 0..(Len(t) - Len(p)) : SubSeq(t, i + 1, i + Len(p)) = p

\* Python's text.split("\n"): always at least one (possibly empty) piece.
RECURSIVE SplitFrom(_, _)
SplitFrom(text, cur) ==
    IF text = <<>> THEN <<cur>>
    ELSE IF Head(text) = "\n" THEN <<cur>> \o SplitFrom(Tail(text), <<>>)
    ELSE SplitFrom(Tail(text), Append(cur, Head(text)))

Split(text) == SplitFrom(text, <<>>)

\* " " * n
Spaces(n) == [i \in 1..n |-> " "]

(***************************************************************************)
(* get_opts: the usage tag of a command, f"usage: {cmd_name}".             *)
(***************************************************************************)
UsagePrefix == <<"u", "s", "a", "g", "e", ":">>

usage_tag_of(cmd_name) == UsagePrefix \o <<" ">> \o cmd_name

(***************************************************************************)
(* get_help_text: the captured output, trailing whitespace trimmed.        *)
(***************************************************************************)
get_help_text(stdout) == Rstrip(stdout)

(***************************************************************************)
(* get_help_lines: split, optional usage-only trimming, indentation.       *)
(***************************************************************************)
IndentLine(line, indent_level) ==
    IF line # <<>> THEN Spaces(indent_level) \o line ELSE line

\* Variant: "usage:" is looked for without lowering the line.
RECURSIVE HelpLoopCaseSensitive(_, _, _)
HelpLoopCaseSensitive(pieces, usage_found, indent_level) ==
    IF pieces = <<>> THEN <<>>
    ELSE LET line == Head(pieces)
             found == IF ~usage_found
                      THEN Contains(line, UsagePrefix)
                      ELSE usage_found
         IN  IF found
             THEN <<IndentLine(line, indent_level)>>
                      \o HelpLoopCaseSensitive(Tail(pieces), found, indent_level)
             ELSE HelpLoopCaseSensitive(Tail(pieces), found, indent_level)

RECURSIVE HelpLoop(_, _, _)
HelpLoop(pieces, usage_found, indent_level) ==
    IF pieces = <<>> THEN <<>>
    ELSE LET line == Head(pieces)
             found == IF ~usage_found
                      THEN Contains(Lower(line), UsagePrefix)
                      ELSE usage_found
         IN  IF found
             THEN <<IndentLine(line, indent_level)>>
                      \o HelpLoop(Tail(pieces), found, indent_level)
             ELSE HelpLoop(Tail(pieces), found, indent_level)

get_help_lines(stdout, usage_only, indent_level) ==
    HelpLoop(Split(get_help_text(stdout)), ~usage_only, indent_level)

(***************************************************************************)
(* index_usage_section.  The result is <<tbt_before, tbt_after>> (0-based) *)
(* or <<>> for the pair (None, None); warn is what it appends to warnings. *)
(***************************************************************************)
\* The backquote character (SANY rejects it inside a string literal).
Backquote == "BACKQUOTE"

tbt == <<Backquote, Backquote, Backquote>>

IsTbtLine(line) ==
    LET s == Strip(line)
    IN  StartsWith(s, tbt) /\ ~(Len(s) > 6 /\ EndsWith(s, tbt))

IsUsageLine(line, usage_tag) == Contains(Lower(Strip(line)), Lower(usage_tag))

\* for ix, line in enumerate(doc_lines): the two index lists, 0-based.
RECURSIVE ScanLoop(_, _, _, _, _)
ScanLoop(doc, ix, usage_tag, tbt_lines, usage_lines) ==
    IF ix >= Len(doc)
    THEN [tbt_lines |-> tbt_lines, usage_lines |-> usage_lines]
    ELSE ScanLoop(doc, ix + 1, usage_tag,
                  IF IsTbtLine(doc[ix + 1]) THEN Append(tbt_lines, ix)
                  ELSE tbt_lines,
                  IF IsUsageLine(doc[ix + 1], usage_tag)
                  THEN Append(usage_lines, ix)
                  ELSE usage_lines)

\* Variant: the elif has lost its "tbt_after < 0" test, so the last fence
\* after the occurrence wins.
RECURSIVE TbtLoopLastAfter(_, _, _, _)
TbtLoopLastAfter(xs, u, tbt_before, tbt_after) ==
    IF xs = <<>> THEN <<tbt_before, tbt_after>>
    ELSE LET x == Head(xs)
         IN  IF x <= u THEN TbtLoopLastAfter(Tail(xs), u, x, tbt_after)
             ELSE TbtLoopLastAfter(Tail(xs), u, tbt_before, x)

\* for x in tbt_lines: if x <= usage_lines[0] ... elif tbt_after < 0 ...
RECURSIVE TbtLoop(_, _, _, _)
TbtLoop(xs, u, tbt_before, tbt_after) ==
    IF xs = <<>> THEN <<tbt_before, tbt_after>>
    ELSE LET x == Head(xs)
         IN  IF x <= u THEN TbtLoop(Tail(xs), u, x, tbt_after)
             ELSE IF tbt_after < 0 THEN TbtLoop(Tail(xs), u, tbt_before, x)
             ELSE TbtLoop(Tail(xs), u, tbt_before, tbt_after)

WarnNoReference(usage_tag) == <<"WARNING: No reference found in document", usage_tag>>
WarnMoreThanOne(usage_tag) == <<"WARNING: More than one reference found", usage_tag>>
WarnNoFence(usage_tag) == <<"Could not find surrounding triple-backticks", usage_tag>>
WarnCannotProcess == <<"Cannot process help/usage for this program.", <<>>>>

\* Variant: the "more than one reference" test is missing and the first
\* occurrence is used.
AfterScanFirstMatch(tbt_lines, usage_lines, usage_tag) ==
    IF usage_lines = <<>>
    THEN [range |-> <<>>,
          warn |-> <<WarnNoReference(usage_tag), WarnCannotProcess>>]
    ELSE LET r == TbtLoop(tbt_lines, usage_lines[1], -1, -1)
         IN  IF r[1] < 0 \/ r[2] < 0
             THEN [range |-> <<>>,
                   warn |-> <<WarnNoFence(usage_tag), WarnCannotProcess>>]
             ELSE [range |-> r, warn |-> <<>>]

\* The body of index_usage_section after its first loop.
AfterScan(tbt_lines, usage_lines, usage_tag) ==
    IF usage_lines = <<>>
    THEN [range |-> <<>>,
          warn |-> <<WarnNoReference(usage_tag), WarnCannotProcess>>]
    ELSE IF Len(usage_lines) > 1
    THEN [range |-> <<>>,
          warn |-> <<WarnMoreThanOne(usage_tag), WarnCannotProcess>>]
    ELSE LET r == TbtLoop(tbt_lines, usage_lines[1], -1, -1)
         IN  IF r[1] < 0 \/ r[2] < 0
             THEN [range |-> <<>>,
                   warn |-> <<WarnNoFence(usage_tag), WarnCannotProcess>>]
             ELSE [range |-> r, warn |-> <<>>]

\* The two lists are built once, by the scan, and then only read.
index_usage_section(doc, usage_tag) ==
    CHOOSE result \in
        { AfterScan(scan.tbt_lines, scan.usage_lines, usage_tag) :
              scan \in {ScanLoop(doc, 0, usage_tag, <<>>, <<>>)} } : TRUE

\* Variant: a = doc_lines[:ia], the opening fence is lost.
SpliceFromIa(doc, ia, ib, help_lines) ==
    SubSeq(doc, 1, ia) \o help_lines \o SubSeq(doc, ib + 1, Len(doc))

\* Variant: b = doc_lines[ib + 1:], the closing fence is lost.
SpliceAfterIb(doc, ia, ib, help_lines) ==
    SubSeq(doc, 1, ia + 1) \o help_lines \o SubSeq(doc, ib + 2, Len(doc))

\* main, lines 307-309: a = doc_lines[: ia + 1]; b = doc_lines[ib:]
Splice(doc, ia, ib, help_lines) ==
    SubSeq(doc, 1, ia + 1) \o help_lines \o SubSeq(doc, ib + 1, Len(doc))

\* write_output then a later read of that file by main (line 299):
\* each line is written followed by "\n", read back and right-stripped.
RECURSIVE FileText(_)
FileText(lines) ==
    IF lines = <<>> THEN <<>> ELSE Head(lines) \o <<"\n">> \o FileText(Tail(lines))

\* f.readlines(): the pieces of the text, each ending with its "\n".
RECURSIVE ReadLinesFrom(_, _)
ReadLinesFrom(text, cur) ==
    IF text = <<>> THEN (IF cur = <<>> THEN <<>> ELSE <<cur>>)
    ELSE IF Head(text) = "\n"
         THEN <<Append(cur, "\n")>> \o ReadLinesFrom(Tail(text), <<>>)
    ELSE ReadLinesFrom(Tail(text), Append(cur, Head(text)))

\* Variant: s.strip() in place of s.rstrip().
ReadDocStrip(text) ==
    LET ls == ReadLinesFrom(text, <<>>) IN [i \in 1..Len(ls) |-> Strip(ls[i])]

ReadDoc(text) ==
    LET ls == ReadLinesFrom(text, <<>>) IN [i \in 1..Len(ls) |-> Rstrip(ls[i])]

(***************************************************************************)
(* Concrete text used as input: document lines, command names, outputs.    *)
(***************************************************************************)
LineFence == tbt
LineUsageA == <<"u", "s", "a", "g", "e", ":", " ", "a">>
LineUsageB == <<"U", "s", "a", "g", "e", ":", " ", "B">>
LineText == <<"x">>
LineEmpty == <<>>
LineFenceUsageB == tbt \o <<"u", "s", "a", "g", "e", ":", " ", "b">>
LineSpan == tbt \o <<"x">> \o tbt
LineIndentedFence == <<" ">> \o tbt
LineIndentedUsageA == <<" ", " ">> \o LineUsageA
LineTrailing == <<"x", " ">>

\* Lines of the documents a session reads (right-stripped, as main reads them).
DocLines == {LineFence, LineUsageA, LineUsageB, LineText, LineFenceUsageB}

\* Lines of the documents index_usage_section is exercised on by itself.
ScanLines == DocLines \cup {LineEmpty, LineSpan, LineIndentedFence, LineIndentedUsageA}

\* Lines of the help texts get_help_lines is exercised on by itself.
HelpLineSet == {LineUsageA, LineUsageB, LineText, LineEmpty, LineTrailing}

SeqsUpTo(S, n) == UNION {[1..k -> S] : k \in 0..n}

RECURSIVE Join(_)
Join(lines) ==
    IF lines = <<>> THEN <<>>
    ELSE IF Len(lines) = 1 THEN lines[1]
    ELSE Head(lines) \o <<"\n">> \o Join(Tail(lines))

\* What a program may print for -h in a session.
Stdouts ==
    { Join(<<LineUsageA>>),
      Join(<<LineText, LineUsageB, LineEmpty>>),
      Join(<<LineUsageA, LineFence>>),
      Join(<<LineTrailing, LineEmpty, LineText>>),
      Join(<<LineText>>) }

AllStdouts == {Join(ls) : ls \in SeqsUpTo(HelpLineSet, MaxHelpLines)}

CmdNames == {<<"a">>, <<"B">>}

\* opts.programs: a list of (run_cmd, usage_tag); run_cmd is the bare name.
ProgramOf(cmd_name) == <<cmd_name, usage_tag_of(cmd_name)>>

ProgramLists ==
    {[i \in 1..Len(ns) |-> ProgramOf(ns[i])] :
        ns \in SeqsUpTo(CmdNames, MaxCmds) \ {<<>>}}

RECURSIVE Reverse(_)
Reverse(s) == IF s = <<>> THEN <<>> ELSE Append(Reverse(Tail(s)), Head(s))

NoOutput == <<"", "no output captured">>

(***************************************************************************)
(* The session: main, one step per call it makes.                          *)
(***************************************************************************)
VARIABLES
    programs,      \* opts.programs
    usage_only,    \* opts.usage_only
    indent_level,  \* opts.indent_level
    stdout_of,     \* what each command prints for -h, once it has been run
    orig_lines,    \* main: the document as read
    doc_lines,     \* main: the evolving document
    warnings,      \* the module-level list
    pc,            \* position in main
    ix,            \* 1-based position of the for loop in opts.programs
    range,         \* (ia, ib) of the last index_usage_section call
    help_lines,    \* result of the last get_help_lines call
    cmd_state,     \* per command: PENDING, RESOLVING, RESOLVED, INJECTED, UNRESOLVED
    captures,      \* the commands (positions) whose process was launched
    emitted,       \* the warnings printed at the end of main
    written,       \* whether write_output produced a file
    out_text,      \* the text of that file
    failure,       \* the call whose exception ended main, or "none"
    mode,          \* "first" run, or a second run: "again" / "reversed"
    first_doc,     \* final doc_lines of the first run
    first_state    \* final cmd_state of the first run

vars == <<programs, usage_only, indent_level, stdout_of, orig_lines, doc_lines,
          warnings, pc, ix, range, help_lines, cmd_state, captures, emitted,
          written, out_text, failure, mode, first_doc, first_state>>

opts_vars == <<programs, usage_only, indent_level>>
hist_vars == <<mode, first_doc, first_state>>
out_vars == <<written, out_text, emitted>>

\* Before main has read its arguments and the document.
Init ==
    /\ programs = <<>>
    /\ usage_only = FALSE
    /\ indent_level = 0
    /\ stdout_of = [n \in CmdNames |-> NoOutput]
    /\ orig_lines = <<>>
    /\ doc_lines = <<>>
    /\ warnings = <<>>
    /\ pc = "start"
    /\ ix = 1
    /\ range = <<>>
    /\ help_lines = <<>>
    /\ cmd_state = <<>>
    /\ captures = <<>>
    /\ emitted = <<>>
    /\ written = FALSE
    /\ out_text = <<>>
    /\ failure = "none"
    /\ mode = "first"
    /\ first_doc = <<>>
    /\ first_state = <<>>

\* main up to the loop, in a new process: opts = get_opts(arglist), the
\* document is read, doc_lines = orig_lines[:]; warnings is the empty list.
Restart(progs, doc) ==
    /\ programs' = progs
    /\ orig_lines' = doc
    /\ doc_lines' = doc
    /\ warnings' = <<>>
    /\ pc' = "loop"
    /\ ix' = 1
    /\ range' = <<>>
    /\ help_lines' = <<>>
    /\ cmd_state' = [i \in 1..Len(progs) |-> "PENDING"]
    /\ captures' = <<>>
    /\ emitted' = <<>>
    /\ written' = FALSE
    /\ out_text' = <<>>
    /\ failure' = "none"

MainStartFrom(progs_set, docs, only_set, indents) ==
    /\ pc = "start"
    /\ \E progs \in progs_set, doc \in docs : Restart(progs, doc)
    /\ usage_only' \in only_set
    /\ indent_level' \in indents
    /\ UNCHANGED <<stdout_of, mode, first_doc, first_state>>

MainStart ==
    MainStartFrom(ProgramLists, SeqsUpTo(DocLines, MaxDocLen), BOOLEAN,
                  {0, MaxIndent})

\* for run_cmd, usage_tag in opts.programs: the next command is taken up.
ForNext ==
    /\ pc = "loop"
    /\ ix <= Len(programs)
    /\ cmd_state' = [cmd_state EXCEPT ![ix] = "RESOLVING"]
    /\ pc' = "index"
    /\ UNCHANGED <<opts_vars, stdout_of, orig_lines, doc_lines, warnings, ix,
                   range, help_lines, captures, out_vars, failure, hist_vars>>

\* Variant: the help is fetched before the result is looked at, so a process
\* is launched for an unresolved command too.
IndexThenLaunch ==
    /\ pc = "index"
    /\ \E r \in {index_usage_section(doc_lines, programs[ix][2])} :
           /\ warnings' = warnings \o r.warn
           /\ range' = r.range
           /\ IF r.range # <<>>
              THEN /\ cmd_state' = [cmd_state EXCEPT ![ix] = "RESOLVED"]
                   /\ pc' = "help"
                   /\ ix' = ix
                   /\ captures' = captures
              ELSE /\ cmd_state' = [cmd_state EXCEPT ![ix] = "UNRESOLVED"]
                   /\ pc' = "loop"
                   /\ ix' = ix + 1
                   /\ captures' = Append(captures, ix)
    /\ UNCHANGED <<opts_vars, stdout_of, orig_lines, doc_lines, help_lines,
                   out_vars, failure, hist_vars>>

\* Variant: an unresolved command ends the run (sys.exit).
IndexOrExit ==
    /\ pc = "index"
    /\ \E r \in {index_usage_section(doc_lines, programs[ix][2])} :
           /\ warnings' = warnings \o r.warn
           /\ range' = r.range
           /\ IF r.range # <<>>
              THEN /\ cmd_state' = [cmd_state EXCEPT ![ix] = "RESOLVED"]
                   /\ pc' = "help"
              ELSE /\ cmd_state' = [cmd_state EXCEPT ![ix] = "UNRESOLVED"]
                   /\ pc' = "aborted"
    /\ UNCHANGED <<opts_vars, stdout_of, orig_lines, doc_lines, ix, help_lines,
                   captures, out_vars, failure, hist_vars>>

\* ia, ib = index_usage_section(doc_lines, opts.doc_path, usage_tag)
IndexUsageSection ==
    /\ pc = "index"
    /\ \E r \in {index_usage_section(doc_lines, programs[ix][2])} :
           /\ warnings' = warnings \o r.warn
           /\ range' = r.range
           /\ IF r.range # <<>>
              THEN /\ cmd_state' = [cmd_state EXCEPT ![ix] = "RESOLVED"]
                   /\ pc' = "help"
                   /\ ix' = ix
              ELSE /\ cmd_state' = [cmd_state EXCEPT ![ix] = "UNRESOLVED"]
                   /\ pc' = "loop"
                   /\ ix' = ix + 1
    /\ UNCHANGED <<opts_vars, stdout_of, orig_lines, doc_lines, help_lines,
                   captures, out_vars, failure, hist_vars>>

\* help_lines = get_help_lines(run_cmd, opts): the process runs and returns.
GetHelpLinesFrom(outputs) ==
    /\ pc = "help"
    /\ LET name == programs[ix][1]
       IN  \E out \in (IF stdout_of[name] = NoOutput THEN outputs
                       ELSE {stdout_of[name]}) :
               /\ stdout_of' = [stdout_of EXCEPT ![name] = out]
               /\ help_lines' = get_help_lines(out, usage_only, indent_level)
    /\ captures' = Append(captures, ix)
    /\ pc' = "splice"
    /\ UNCHANGED <<opts_vars, orig_lines, doc_lines, warnings, ix, range,
                   cmd_state, out_vars, failure, hist_vars>>

GetHelpLines == GetHelpLinesFrom(Stdouts)

\* get_help_text: subprocess.run(check=True) raises and main re-raises.
GetHelpFails ==
    /\ pc = "help"
    /\ captures' = Append(captures, ix)
    /\ failure' = "capture"
    /\ pc' = "aborted"
    /\ UNCHANGED <<opts_vars, stdout_of, orig_lines, doc_lines, warnings, ix,
                   range, help_lines, cmd_state, out_vars, hist_vars>>

\* doc_lines = a + help_lines + b
Inject ==
    /\ pc = "splice"
    /\ doc_lines' = Splice(doc_lines, range[1], range[2], help_lines)
    /\ cmd_state' = [cmd_state EXCEPT ![ix] = "INJECTED"]
    /\ ix' = ix + 1
    /\ pc' = "loop"
    /\ UNCHANGED <<opts_vars, stdout_of, orig_lines, warnings, range,
                   help_lines, captures, out_vars, failure, hist_vars>>

\* if orig_lines == doc_lines: nothing to do.
NothingToDo ==
    /\ pc = "loop"
    /\ ix > Len(programs)
    /\ orig_lines = doc_lines
    /\ pc' = "warn"
    /\ UNCHANGED <<opts_vars, stdout_of, orig_lines, doc_lines, warnings, ix,
                   range, help_lines, cmd_state, captures, out_vars, failure,
                   hist_vars>>

\* else: write_output, then run_compare when opts.diff_tool is given.
WriteOutput ==
    /\ pc = "loop"
    /\ ix > Len(programs)
    /\ orig_lines # doc_lines
    /\ \E exists \in BOOLEAN, diff_tool \in BOOLEAN, launched \in BOOLEAN :
           IF exists
           THEN \* assert not out_path.exists()
                /\ failure' = "write"
                /\ pc' = "aborted"
                /\ UNCHANGED <<written, out_text>>
           ELSE /\ written' = TRUE
                /\ out_text' = FileText(doc_lines)
                /\ IF diff_tool /\ ~launched
                   THEN failure' = "compare" /\ pc' = "aborted"
                   ELSE failure' = failure /\ pc' = "warn"
    /\ UNCHANGED <<opts_vars, stdout_of, orig_lines, doc_lines, warnings, ix,
                   range, help_lines, cmd_state, captures, emitted, hist_vars>>

\* Variant: the list is cleared once printed.
PrintAndClear ==
    /\ pc = "warn"
    /\ emitted' = warnings
    /\ warnings' = <<>>
    /\ pc' = "done"
    /\ UNCHANGED <<opts_vars, stdout_of, orig_lines, doc_lines, ix, range,
                   help_lines, cmd_state, captures, written, out_text, failure,
                   hist_vars>>

\* if warnings: print each; return 0
PrintWarnings ==
    /\ pc = "warn"
    /\ emitted' = warnings
    /\ pc' = "done"
    /\ UNCHANGED <<opts_vars, stdout_of, orig_lines, doc_lines, warnings, ix,
                   range, help_lines, cmd_state, captures, written, out_text,
                   failure, hist_vars>>

\* A second run of the program with the same commands and options on the
\* document the first run left: the file it wrote, else the original.
RunAgain ==
    /\ pc = "done"
    /\ mode = "first"
    /\ mode' = "again"
    /\ first_doc' = doc_lines
    /\ first_state' = cmd_state
    /\ Restart(programs, IF written THEN ReadDoc(out_text) ELSE orig_lines)
    /\ UNCHANGED <<usage_only, indent_level, stdout_of>>

\* A second run on the same original document, the commands in reverse order.
RunReversed ==
    /\ pc = "done"
    /\ mode = "first"
    /\ Len(programs) > 1
    /\ mode' = "reversed"
    /\ first_doc' = doc_lines
    /\ first_state' = cmd_state
    /\ Restart(Reverse(programs), orig_lines)
    /\ UNCHANGED <<usage_only, indent_level, stdout_of>>

Next ==
    \/ MainStart
    \/ ForNext
    \/ IndexUsageSection
    \/ GetHelpLines
    \/ GetHelpFails
    \/ Inject
    \/ NothingToDo
    \/ WriteOutput
    \/ PrintWarnings
    \/ RunAgain
    \/ RunReversed

Spec == Init /\ [][Next]_vars

(***************************************************************************)
(* index_usage_section on its own: one command, a richer set of lines.     *)
(***************************************************************************)
MainStartIndex ==
    MainStartFrom({<<ProgramOf(n)>> : n \in CmdNames},
                  SeqsUpTo(ScanLines, MaxScanLen), {FALSE}, {0})

NextIndex ==
    \/ MainStartIndex
    \/ ForNext
    \/ IndexUsageSection

SpecIndex == Init /\ [][NextIndex]_vars

(***************************************************************************)
(* get_help_lines on its own: the document of test_index_usage_section_2,  *)
(* every help text of up to MaxHelpLines lines.                            *)
(***************************************************************************)
TestDoc == <<LineText, LineEmpty, LineFence, LineUsageA, LineFence, LineEmpty>>

MainStartHelp ==
    MainStartFrom({<<ProgramOf(<<"a">>)>>}, {TestDoc}, BOOLEAN, {0, MaxIndent})

GetAnyHelpLines == GetHelpLinesFrom(AllStdouts)

NextHelp ==
    \/ MainStartHelp
    \/ ForNext
    \/ IndexUsageSection
    \/ GetAnyHelpLines
    \/ Inject

SpecHelp == Init /\ [][NextHelp]_vars

(***************************************************************************)
(* main runs to completion: every call it makes eventually returns or      *)
(* raises (single-threaded, synchronous calls).                            *)
(***************************************************************************)
MainStartFair ==
    MainStartFrom(ProgramLists, SeqsUpTo(DocLines, MaxFairLen), BOOLEAN,
                  {0, MaxIndent})

NextFair ==
    \/ MainStartFair
    \/ ForNext
    \/ IndexUsageSection
    \/ GetHelpLines
    \/ GetHelpFails
    \/ Inject
    \/ NothingToDo
    \/ WriteOutput
    \/ PrintWarnings

FairSpec == Init /\ [][NextFair]_vars /\ WF_vars(NextFair)

(***************************************************************************)
(* Vocabulary of the properties.                                           *)
(***************************************************************************)
FenceSet(doc) == {k \in 0..(Len(doc) - 1) : IsTbtLine(doc[k + 1])}

OccSet(doc, usage_tag) ==
    {k \in 0..(Len(doc) - 1) : IsUsageLine(doc[k + 1], usage_tag)}

MaxOf(S) == CHOOSE m \in S : \A x \in S : x <= m
MinOf(S) == CHOOSE m \in S : \A x \in S : m <= x

\* The range the specification describes, <<>> when there is none.
ExpectedRange(doc, usage_tag) ==
    LET occ == OccSet(doc, usage_tag)
        u == CHOOSE k \in occ : TRUE
        below == {f \in FenceSet(doc) : f <= u}
        above == {f \in FenceSet(doc) : f > u}
    IN  IF Cardinality(occ) = 1 /\ below # {} /\ above # {}
        THEN <<MaxOf(below), MinOf(above)>>
        ELSE <<>>

LoopFinished == pc = "loop" /\ ix > Len(programs)

IsPrefix(s, t) == Len(s) <= Len(t) /\ SubSeq(t, 1, Len(s)) = s

Terminal(st) == st \in {"INJECTED", "UNRESOLVED"}

(***************************************************************************)
(* C1.  index_usage_section returns a range exactly when one line holds    *)
(* the tag with a fence marker at or before it and one after it; the range *)
(* is then (largest fence index <= occurrence, smallest fence index >      *)
(* occurrence), so before <= occurrence < after; otherwise (None, None).   *)
(***************************************************************************)
C1_RangeStep ==
    pc = "index" =>
        LET tag == programs[ix][2]
            occ == OccSet(doc_lines, tag)
        IN  /\ range' = ExpectedRange(doc_lines, tag)
            /\ range' # <<>> =>
                   \A u \in occ : range'[1] <= u /\ u < range'[2]

\* C1: every call of index_usage_section returns a range exactly when one
\* line holds the tag between a fence at or before it and a fence after it,
\* and the range is then the nearest such pair of fences.
C1_IndexUsageSection == [][C1_RangeStep]_vars

\* A range was returned where the nearest fences are not the only ones and
\* the occurrence is a plain content line.
C1_Witness ==
    /\ pc = "help"
    /\ Cardinality(FenceSet(doc_lines)) >= 3
    /\ OccSet(doc_lines, programs[1][2]) \cap FenceSet(doc_lines) = {}

(***************************************************************************)
(* C7.  A range is returned only for an occurrence inside a fenced block:  *)
(* counting the fence markers from the top as opening, closing, opening,   *)
(* ..., before is an opening fence and after the closing fence of the same *)
(* block.                                                                  *)
(***************************************************************************)
FenceRank(doc, k) == Cardinality({f \in FenceSet(doc) : f < k})

\* C7: a returned range is the opening and the closing fence of one block.
C7_InsideBlock ==
    pc = "help" =>
        /\ FenceRank(doc_lines, range[1]) % 2 = 0
        /\ FenceRank(doc_lines, range[2]) = FenceRank(doc_lines, range[1]) + 1

(***************************************************************************)
(* C2.  When the tag of the command being resolved occurs on zero lines or *)
(* on two or more, the command is unresolved and its processing ends with  *)
(* the document exactly as it was.                                         *)
(***************************************************************************)
C2_Step ==
    (pc = "index" /\ Cardinality(OccSet(doc_lines, programs[ix][2])) # 1) =>
        /\ range' = <<>>
        /\ cmd_state'[ix] = "UNRESOLVED"
        /\ doc_lines' = doc_lines
        /\ pc' = "loop"
        /\ ix' = ix + 1

\* C2: a tag on zero lines or on several leaves the command unresolved and
\* the document as it was.
C2_UnresolvedUnchanged == [][C2_Step]_vars

\* An ambiguous tag (two occurrences, each inside fences) was just skipped.
C2_Witness ==
    /\ pc = "loop"
    /\ ix > 1
    /\ cmd_state[ix - 1] = "UNRESOLVED"
    /\ Cardinality(OccSet(doc_lines, programs[ix - 1][2])) >= 2
    /\ Cardinality(FenceSet(doc_lines)) >= 2

(***************************************************************************)
(* C3.  The injection of a resolved command turns the document into        *)
(* document[0..before] + help lines + document[after..]: the lines         *)
(* strictly between the fences go, both fence lines stay as they were, and *)
(* every line outside keeps its content and relative order.                *)
(***************************************************************************)
C3_Step ==
    pc = "splice" =>
        LET before == range[1]
            after == range[2]
            n == Len(help_lines)
            shift == (before + 1 + n) - after
        IN  /\ range = ExpectedRange(doc_lines, programs[ix][2])
            /\ Len(doc_lines') = (before + 1) + n + (Len(doc_lines) - after)
            /\ \A k \in 1..(before + 1) : doc_lines'[k] = doc_lines[k]
            /\ \A j \in 1..n : doc_lines'[before + 1 + j] = help_lines[j]
            /\ \A k \in (after + 1)..Len(doc_lines) :
                   doc_lines'[k + shift] = doc_lines[k]
            /\ IsTbtLine(doc_lines'[before + 1])
            /\ IsTbtLine(doc_lines'[before + 2 + n])

\* C3: every injection yields document[0..before] + help lines +
\* document[after..], with both fence lines kept.
C3_Splice == [][C3_Step]_vars

\* An injection replaced old content by several help lines, with text both
\* before the opening fence and after the closing fence.
C3_Witness ==
    /\ mode = "first"
    /\ pc = "loop"
    /\ ix > 1
    /\ cmd_state[ix - 1] = "INJECTED"
    /\ Len(help_lines) >= 2
    /\ range[1] > 0
    /\ range[2] - range[1] >= 2
    /\ doc_lines # orig_lines

(***************************************************************************)
(* C6.  A process is launched for a command only once its section is       *)
(* resolved: the launches so far are exactly the resolved commands that    *)
(* got past the capture, once each, in command order; an unresolved        *)
(* command is never in the list, and a command is captured before it is    *)
(* injected and before the next command is taken up.                       *)
(***************************************************************************)
Captured(i) ==
    \/ cmd_state[i] = "INJECTED"
    \/ cmd_state[i] = "RESOLVED" /\ pc \in {"splice", "aborted"}

RECURSIVE CapturedFrom(_)
CapturedFrom(i) ==
    IF i > Len(programs) THEN <<>>
    ELSE IF Captured(i) THEN <<i>> \o CapturedFrom(i + 1)
    ELSE CapturedFrom(i + 1)

\* C6: only resolved commands are captured, once each, before their
\* injection and before the next command is resolved.
C6_CaptureAfterResolve ==
    /\ captures = CapturedFrom(1)
    /\ \A k \in 1..Len(captures) : cmd_state[captures[k]] # "UNRESOLVED"
    /\ \A i \in 1..Len(programs) :
           cmd_state[i] \in {"PENDING", "RESOLVING"} =>
               \A k \in 1..Len(captures) : captures[k] < i

\* The first command was skipped without a launch, the second was captured.
C6_Witness ==
    /\ Len(programs) = 2
    /\ cmd_state[1] = "UNRESOLVED"
    /\ pc = "splice"
    /\ captures = <<2>>

(***************************************************************************)
(* C10.  The warning log only grows during a run: each step leaves the old *)
(* log as a prefix of the new one; resolving a command adds nothing; an    *)
(* unresolved command adds its entries at the end, so the entries follow   *)
(* command order; the log is printed only after the last command.          *)
(***************************************************************************)
RECURSIVE UnresolvedTags(_, _)
UnresolvedTags(st, i) ==
    IF i > Len(st) THEN <<>>
    ELSE IF st[i] = "UNRESOLVED"
         THEN <<programs[i][2]>> \o UnresolvedTags(st, i + 1)
    ELSE UnresolvedTags(st, i + 1)

C10_Step ==
    mode' = mode =>
        /\ IsPrefix(warnings, warnings')
        /\ (pc = "index" /\ range' # <<>>) => warnings' = warnings
        /\ (pc = "index" /\ range' = <<>>) =>
               /\ Len(warnings') = Len(warnings) + 2
               /\ warnings'[Len(warnings) + 1][2] = programs[ix][2]
               /\ warnings'[Len(warnings) + 2] = WarnCannotProcess
        /\ pc # "index" => warnings' = warnings
        /\ Len(warnings') = 2 * Len(UnresolvedTags(cmd_state', 1))
        /\ \A k \in 1..Len(UnresolvedTags(cmd_state', 1)) :
               warnings'[2 * k - 1][2] = UnresolvedTags(cmd_state', 1)[k]
        /\ emitted' # emitted =>
               /\ emitted' = warnings
               /\ ix > Len(programs)
               /\ \A i \in 1..Len(programs) : Terminal(cmd_state[i])

\* C10: the warning log is append-only within a run, follows command
\* order and is printed only after the last command.
C10_AppendOnly == [][C10_Step]_vars

\* A run with one injected and one unresolved command printed its log.
C10_Witness ==
    /\ pc = "done"
    /\ Len(emitted) = 2
    /\ \E i \in 1..Len(programs) : cmd_state[i] = "INJECTED"

(***************************************************************************)
(* C9.  The lines get_help_lines keeps.  With usage_only they are the      *)
(* suffix of the captured text's lines from the first line whose lowercase *)
(* form contains "usage:" (none: the empty sequence); without it, all the  *)
(* lines, in order.                                                        *)
(***************************************************************************)
CapturedLines == Split(Rstrip(stdout_of[programs[ix][1]]))

UsageIdx(ls) == {i \in 1..Len(ls) : Contains(Lower(ls[i]), UsagePrefix)}

KeptLines(ls, only) ==
    IF ~only THEN ls
    ELSE IF UsageIdx(ls) = {} THEN <<>>
    ELSE SubSeq(ls, MinOf(UsageIdx(ls)), Len(ls))

\* C9, as claimed: the result is exactly those lines.
C9_ExactSuffix ==
    pc = "splice" => help_lines = KeptLines(CapturedLines, usage_only)

\* C9, as amended: each kept line that is not empty comes back with
\* indent_level spaces in front of it.
C9_IndentedSuffix ==
    pc = "splice" =>
        LET kept == KeptLines(CapturedLines, usage_only)
        IN  /\ Len(help_lines) = Len(kept)
            /\ \A k \in 1..Len(kept) :
                   help_lines[k] = IF kept[k] = <<>> THEN <<>>
                                   ELSE Spaces(indent_level) \o kept[k]

\* A leading line was dropped, the usage line was found by its uppercase
\* spelling and the line after it was kept, with indentation in force.
C9_Witness ==
    /\ pc = "splice"
    /\ usage_only
    /\ indent_level > 0
    /\ Len(CapturedLines) = 3
    /\ UsageIdx(CapturedLines) = {2}
    /\ CapturedLines[2] = LineUsageB
    /\ Len(help_lines) = 2

(***************************************************************************)
(* C8.  Commands are processed in the order given; each goes PENDING ->    *)
(* RESOLVING and then to exactly one of INJECTED (through RESOLVED) or     *)
(* UNRESOLVED and stays there; an unresolved command never ends the run;   *)
(* the run ends (main returns 0) after the last command.                   *)
(***************************************************************************)
Transitions ==
    { <<"PENDING", "RESOLVING">>, <<"RESOLVING", "RESOLVED">>,
      <<"RESOLVING", "UNRESOLVED">>, <<"RESOLVED", "INJECTED">> }

C8_Step ==
    mode' = mode =>
        /\ \A i \in 1..Len(programs) :
               cmd_state'[i] # cmd_state[i] =>
                   /\ i = ix
                   /\ <<cmd_state[i], cmd_state'[i]>> \in Transitions
                   /\ \A j \in 1..(i - 1) : Terminal(cmd_state[j])
                   /\ \A j \in (i + 1)..Len(programs) : cmd_state[j] = "PENDING"
        /\ (pc = "index" /\ range' = <<>>) =>
               /\ pc' = "loop"
               /\ ix' = ix + 1
               /\ failure' = "none"
        /\ pc' = "done" => \A i \in 1..Len(programs) : Terminal(cmd_state'[i])

Known(i) == stdout_of[programs[i][1]] # NoOutput

HelpOf(i) == get_help_lines(stdout_of[programs[i][1]], usage_only, indent_level)

\* No injected line matches the tag of a command with another tag.
CrossFree ==
    \A i, j \in 1..Len(programs) :
        (Known(i) /\ programs[j][2] # programs[i][2]) =>
            \A k \in 1..Len(HelpOf(i)) : ~IsUsageLine(HelpOf(i)[k], programs[j][2])

\* No injected line is a fence marker or ends in whitespace.
PlainHelp ==
    \A i \in 1..Len(programs) :
        Known(i) =>
            \A k \in 1..Len(HelpOf(i)) :
                /\ ~IsTbtLine(HelpOf(i)[k])
                /\ Rstrip(HelpOf(i)[k]) = HelpOf(i)[k]

(***************************************************************************)
(* C4.  Idempotence: a second run with the same commands and the same help *)
(* text, on the document the first run left, ends with the document it     *)
(* started from.                                                           *)
(***************************************************************************)
\* C4, as claimed: the second run leaves its input document unchanged, for
\* every document and command list.
C4_Idempotent == (mode = "again" /\ LoopFinished) => doc_lines = orig_lines

\* C4, as amended: the second run leaves its input document unchanged
\* when every command was injected in the first run and no
\* injected line is a fence marker, ends in whitespace or matches the tag
\* of another command.
C4_IdempotentWhenClean ==
    ( /\ mode = "again"
      /\ LoopFinished
      /\ \A i \in 1..Len(first_state) : first_state[i] = "INJECTED"
      /\ PlainHelp
      /\ CrossFree ) => doc_lines = orig_lines

\* Two different commands were injected in the first run, which changed the
\* document, and both were injected again in the second.
C4_Witness ==
    /\ mode = "again"
    /\ LoopFinished
    /\ Len(programs) = 2
    /\ programs[1] # programs[2]
    /\ first_state = <<"INJECTED", "INJECTED">>
    /\ cmd_state = <<"INJECTED", "INJECTED">>
    /\ PlainHelp
    /\ CrossFree
    /\ \E k \in 1..Len(doc_lines) : doc_lines[k] \notin DocLines

(***************************************************************************)
(* C5.  Order independence: two commands with different tags, neither      *)
(* injecting a match for the other's tag, are both resolved and leave the  *)
(* same final document in either order.                                    *)
(***************************************************************************)
TwoCommands ==
    /\ Len(programs) = 2
    /\ programs[1][2] # programs[2][2]
    /\ ~Contains(Lower(programs[1][2]), Lower(programs[2][2]))
    /\ ~Contains(Lower(programs[2][2]), Lower(programs[1][2]))

\* Each tag has its section in the starting document.
BothSections ==
    \A i \in 1..2 : ExpectedRange(orig_lines, programs[i][2]) # <<>>

\* The closing fence of one section is at or above the opening fence of the
\* other.
Disjoint ==
    LET r1 == ExpectedRange(orig_lines, programs[1][2])
        r2 == ExpectedRange(orig_lines, programs[2][2])
    IN  r1[2] <= r2[1] \/ r2[2] <= r1[1]

SameOutcome ==
    /\ \A i \in 1..2 : cmd_state[i] = "INJECTED" /\ first_state[i] = "INJECTED"
    /\ doc_lines = first_doc

\* C5, as claimed: both orders inject both commands and end with the same
\* document, for starting documents that hold a section for each tag.
C5_OrderIndependent ==
    ( /\ mode = "reversed"
      /\ LoopFinished
      /\ TwoCommands
      /\ CrossFree
      /\ BothSections ) => SameOutcome

\* C5, as amended: both orders inject both commands and end with the same
\* document when the two sections do not overlap.
C5_OrderIndependentDisjoint ==
    ( /\ mode = "reversed"
      /\ LoopFinished
      /\ TwoCommands
      /\ CrossFree
      /\ BothSections
      /\ Disjoint ) => SameOutcome

\* Both orders were run on a document with two separate sections and the
\* injections changed it.
C5_Witness ==
    /\ mode = "reversed"
    /\ LoopFinished
    /\ TwoCommands
    /\ CrossFree
    /\ BothSections
    /\ Disjoint
    /\ doc_lines # orig_lines

====
